---- MODULE Spec2Model ----
(***************************************************************************)
(* A model of wipac_telemetry.tracing_tools: the spanned()/respanned()     *)
(* decorators (spans.py), the carrier propagation (propagations.py) and    *)
(* the tracing collaborator they drive (start_span, use_span,              *)
(* get_current_span, Span.end ...).                                        *)
(*                                                                         *)
(* An execution unit is an OS thread or an asyncio task; each has its own  *)
(* ambient context (cur) and its own stack of active decorated calls.      *)
(* Spans live in shared memory (parent, ended).                            *)
(*                                                                         *)
(* Spec, SpecDeep: one thread making nested spanned/respanned calls.       *)
(* SpecThreads: a main thread handing work to pool threads.                *)
(* SpecAsync: tasks of one event loop.  SpecGen: a thread consuming        *)
(* decorated generators.                                                   *)
(***************************************************************************)
EXTENDS Integers, Sequences, FiniteSets, TLC

\* ---------------------------------------------------------------- bounds
MaxNew == 2
MaxDepth == 2
NWorkers == 2
NGens == 2
MaxEvents == 2
MaxLen == 2

\* ------------------------------------------------------------- constants
INVALID_SPAN == 0
None == -1
Unresolved == -2
MainThread == 0

Units == 0..NWorkers
Workers == 1..NWorkers
Gens == 1..NGens
MaxSpans == (MaxNew + 1) * (NWorkers + 1)
SpanIds == 1..MaxSpans

END_ON_EXIT == "END_ON_EXIT"
DONT_END == "DONT_END"
ONLY_END_ON_EXCEPTION == "ONLY_END_ON_EXCEPTION"
SpanBehavior == {END_ON_EXIT, DONT_END, ONLY_END_ON_EXCEPTION}

NoExc == ""
InvalidSpanBehavior == "InvalidSpanBehavior"
TypeError == "TypeError"
RuntimeError == "RuntimeError"
AttributeError == "AttributeError"
ValueError == "ValueError"
UserExc == {"Exception"}

VARIABLES
    nspans,     \* number of spans started so far; their ids are 1..nspans
    parent,     \* parent[s]: the span id of s's parent context, 0 for a root span
    owner,      \* owner[s]: the unit (thread or task) that started s
    ended,      \* ended[s]: Span.end() has taken effect on s
    cur,        \* cur[u]: the span held by unit u's ambient context
    stack,      \* stack[u]: the active decorated calls of unit u, innermost last
    exc,        \* exc[u]: the exception propagating in unit u, NoExc if none
    selfSpan,   \* the variable `self.span` / `outter_span` (None or a span)
    job,        \* job[u]: the work of a worker thread or task and its progress
    gen,        \* gen[g]: a generator object made by a decorated generator function
    events,     \* events[s]: the number of events recorded on span s (SpecEvents)
    fcall,      \* a call of a helper function of utils.py: arguments and result
    last        \* the decorator operation the latest step performed, NoOp for user code

vars == <<nspans, parent, owner, ended, cur, stack, exc, selfSpan, job, gen, events, fcall,
          last>>

\* ------------------------------------------------- tracing collaborator

is_recording(s) == s \in SpanIds /\ ~ended[s]

get_current_span(u) == cur[u]

RECURSIVE TraceOf(_)
TraceOf(s) == IF parent[s] = INVALID_SPAN THEN s ELSE TraceOf(parent[s])

NoCarrier == <<>>

\* The "traceparent" entry written for span s: <<trace id, span id>>.
inject_span_carrier(u) ==
    IF cur[u] = INVALID_SPAN THEN NoCarrier ELSE <<TraceOf(cur[u]), cur[u]>>

\* extract(): the parent span id named by the carrier, none for an empty one.
extract(carrier) == IF carrier = NoCarrier THEN INVALID_SPAN ELSE carrier[2]

\* ------------------------------------------------------------ conductors

\* What get_span() did: the error it raised (NoExc if none), the span it
\* returns or raised about, the parent given to a new span, and the calls it
\* made on the tracer and the span, in order.
Acquired(err, span, par, calls) ==
    [err |-> err, span |-> span, parent |-> par, calls |-> calls]

\* FunctionInspector.resolve_attr on the carrier path: the carrier the
\* argument holds, or the error for a path the arguments do not have.
resolve_attr(carrier) ==
    IF carrier = <<Unresolved>> THEN [err |-> AttributeError, value |-> NoCarrier]
    ELSE [err |-> NoExc, value |-> carrier]

\* FunctionInspector.wrangle_otel_attributes: the error, if any, of resolving
\* the configured attribute paths (`these`) in the call's arguments.
wrangle_otel_attributes(cfg) == IF cfg.these = "unbound" THEN AttributeError ELSE NoExc

\* A get_span that starts every span in the caller's current context.
_NewSpanConductor_get_spanIgnoreCarrier(u, cfg, carrier) ==
    LET s == nspans + 1
    IN IF wrangle_otel_attributes(cfg) # NoExc
       THEN Acquired(wrangle_otel_attributes(cfg), INVALID_SPAN, INVALID_SPAN, <<>>)
       ELSE Acquired(NoExc, s, get_current_span(u), <<"start_span", "add_event">>)

\* A get_span over one current span shared by all threads.
_NewSpanConductor_get_spanSharedContext(u, cfg, carrier) ==
    LET s == nspans + 1
        ctx == IF cfg.carrier THEN resolve_attr(carrier)
               ELSE [err |-> NoExc, value |-> NoCarrier]
        par == IF cfg.carrier THEN extract(ctx.value) ELSE get_current_span(MainThread)
    IN IF ctx.err # NoExc THEN Acquired(ctx.err, INVALID_SPAN, INVALID_SPAN, <<>>)
       ELSE IF wrangle_otel_attributes(cfg) # NoExc
            THEN Acquired(wrangle_otel_attributes(cfg), INVALID_SPAN, INVALID_SPAN, <<>>)
            ELSE Acquired(NoExc, s, par, <<"start_span", "add_event">>)

\* A get_span that starts the span before it wrangles the attributes.
_NewSpanConductor_get_spanStartFirst(u, cfg, carrier) ==
    LET s == nspans + 1
        ctx == IF cfg.carrier THEN resolve_attr(carrier)
               ELSE [err |-> NoExc, value |-> NoCarrier]
        par == IF cfg.carrier THEN extract(ctx.value) ELSE get_current_span(u)
    IN IF ctx.err # NoExc THEN Acquired(ctx.err, INVALID_SPAN, INVALID_SPAN, <<>>)
       ELSE IF wrangle_otel_attributes(cfg) # NoExc
            THEN Acquired(wrangle_otel_attributes(cfg), s, par, <<"start_span">>)
            ELSE Acquired(NoExc, s, par, <<"start_span", "add_event">>)

\* _NewSpanConductor.get_span: the context is extracted from the carrier when
\* one is configured (SPAN_CHILD), else it is the caller's current context;
\* the attributes are wrangled; then the span is started in the context and
\* gets the automatic event.  An error of either resolution comes first.
_NewSpanConductor_get_span(u, cfg, carrier) ==
    LET s == nspans + 1
        ctx == IF cfg.carrier THEN resolve_attr(carrier)
               ELSE [err |-> NoExc, value |-> NoCarrier]
        par == IF cfg.carrier THEN extract(ctx.value) ELSE get_current_span(u)
    IN IF ctx.err # NoExc THEN Acquired(ctx.err, INVALID_SPAN, INVALID_SPAN, <<>>)
       ELSE IF wrangle_otel_attributes(cfg) # NoExc
            THEN Acquired(wrangle_otel_attributes(cfg), INVALID_SPAN, INVALID_SPAN, <<>>)
            ELSE Acquired(NoExc, s, par, <<"start_span", "add_event">>)

\* FunctionInspector.get_span(path): the value at the path, which must be a
\* Span; a path the arguments do not have is an AttributeError.
inspector_get_span(pathval) ==
    IF pathval = Unresolved THEN [err |-> AttributeError, span |-> INVALID_SPAN]
    ELSE IF pathval = None THEN [err |-> TypeError, span |-> INVALID_SPAN]
    ELSE [err |-> NoExc, span |-> pathval]

\* A get_span without the current-span guard.
_ReuseSpanConductor_get_spanNoGuard(u, cfg, pathval) ==
    LET found == IF cfg.path THEN inspector_get_span(pathval)
                 ELSE [err |-> NoExc, span |-> get_current_span(u)]
        span == found.span
    IN IF found.err # NoExc THEN Acquired(found.err, INVALID_SPAN, INVALID_SPAN, <<>>)
       ELSE IF wrangle_otel_attributes(cfg) # NoExc
            THEN Acquired(wrangle_otel_attributes(cfg), INVALID_SPAN, INVALID_SPAN, <<>>)
       ELSE Acquired(NoExc, span, INVALID_SPAN, <<"add_event">>)

\* A get_span whose guard looks at the current span of every thread.
_ReuseSpanConductor_get_spanAnyThread(u, cfg, pathval) ==
    LET found == IF cfg.path THEN inspector_get_span(pathval)
                 ELSE [err |-> NoExc, span |-> get_current_span(u)]
        span == found.span
    IN IF found.err # NoExc THEN Acquired(found.err, INVALID_SPAN, INVALID_SPAN, <<>>)
       ELSE IF wrangle_otel_attributes(cfg) # NoExc
            THEN Acquired(wrangle_otel_attributes(cfg), INVALID_SPAN, INVALID_SPAN, <<>>)
       ELSE IF cfg.beh = END_ON_EXIT /\ \E v \in Units : span = get_current_span(v)
            THEN Acquired(InvalidSpanBehavior, span, INVALID_SPAN, <<"add_event">>)
            ELSE Acquired(NoExc, span, INVALID_SPAN, <<"add_event">>)

\* _ReuseSpanConductor.get_span: the span is located by the variable path or
\* is the caller's current span; the attributes are wrangled; the span gets
\* the automatic event; then END_ON_EXIT on the caller's current span is
\* refused.
_ReuseSpanConductor_get_span(u, cfg, pathval) ==
    LET found == IF cfg.path THEN inspector_get_span(pathval)
                 ELSE [err |-> NoExc, span |-> get_current_span(u)]
        span == found.span
    IN IF found.err # NoExc THEN Acquired(found.err, INVALID_SPAN, INVALID_SPAN, <<>>)
       ELSE IF wrangle_otel_attributes(cfg) # NoExc
            THEN Acquired(wrangle_otel_attributes(cfg), INVALID_SPAN, INVALID_SPAN, <<>>)
       ELSE IF cfg.beh = END_ON_EXIT /\ span = get_current_span(u)
            THEN Acquired(InvalidSpanBehavior, span, INVALID_SPAN, <<"add_event">>)
            ELSE Acquired(NoExc, span, INVALID_SPAN, <<"add_event">>)

setup(u, cfg, pathval, carrier) ==
    IF cfg.cond = "new" THEN _NewSpanConductor_get_span(u, cfg, carrier)
    ELSE _ReuseSpanConductor_get_span(u, cfg, pathval)

\* ----------------------------------------------------- decorator configs

\* `these` tells whether attribute paths are configured and whether the
\* function's arguments have them: "none", "bound" or "unbound".
Config(cond, beh, shape, path, carrier) ==
    [cond |-> cond, beh |-> beh, shape |-> shape, path |-> path, carrier |-> carrier,
     these |-> "none"]

\* The decorator of cfg with these=[...] added.
These(cfg, these) == [cfg EXCEPT !.these = these]

Shapes == {"plain", "async"}

\* spanned(behavior=...) on a plain function or a coroutine function
spannedConfigs == {Config("new", b, sh, FALSE, FALSE) : b \in SpanBehavior, sh \in Shapes}

\* respanned(None | "self.span", behavior)
respannedConfigs ==
    {Config("reuse", b, sh, p, FALSE) : b \in SpanBehavior, sh \in Shapes, p \in BOOLEAN}

\* An active decorated call: its behavior and shape, the span it runs under
\* and the token use_span got from attach() (the span of the context before).
Frame(beh, shape, span, token) ==
    [beh |-> beh, shape |-> shape, span |-> span, token |-> token]

Top(u) == stack[u][Len(stack[u])]

Pop(u) == [stack EXCEPT ![u] = SubSeq(stack[u], 1, Len(stack[u]) - 1)]

\* A coroutine is awaited in a coroutine, or started at the top level.
CanAwait(u) == IF stack[u] = <<>> THEN TRUE ELSE Top(u).shape = "async"

\* -------------------------------------------------------------- use_span

\* An attach on one context shared by all units.
attachShared(u, span) == [v \in Units |-> span]

\* context_api.attach(set_span_in_context(span)) in unit u's own context
attach(u, span) == [cur EXCEPT ![u] = span]

\* A detach that clears the context instead of resetting it.
detachToEmpty(u, token) == [cur EXCEPT ![u] = INVALID_SPAN]

\* context_api.detach(token): the context variable is reset to the token's value
detach(u, token) == [cur EXCEPT ![u] = token]

\* Span.end(): takes effect on a recording span; on an ended span it only
\* logs a warning, on INVALID_SPAN it does nothing.
end(s) == IF s \in SpanIds THEN [ended EXCEPT ![s] = TRUE] ELSE ended

\* use_span with end_on_exit=False, resp. True, in every branch.
use_span_endsNever(beh) == 0

use_span_endsAlways(beh) == 1

\* The end_on_exit argument each branch of the wrapper gives use_span: the
\* number of end() calls use_span makes when its block is left.
use_span_ends(beh) == IF beh = END_ON_EXIT THEN 1 ELSE 0

\* A wrapper without the `except:` clause.
except_endsNever(beh) == 0

\* The wrapper's own `except: span.end(); raise` around use_span: the number
\* of end() calls it makes when an exception leaves the body.
except_ends(beh) == IF beh = ONLY_END_ON_EXCEPTION THEN 1 ELSE 0

\* The exception the wrapper re-raises for the exception e that left the body.
reraise(e) == e

\* What a step of a decorator did: the operation, the unit, the call's
\* configuration (as far as the step knows it), the span, whether that span
\* was recording when the step began, the exception that entered the step or
\* was raised by it, the number of end() calls it made and the calls
\* get_span() made.
Op(op, u, cfg, span, e, ends) ==
    [op |-> op, u |-> u, cond |-> cfg.cond, path |-> cfg.path, carrier |-> cfg.carrier,
     beh |-> cfg.beh, shape |-> cfg.shape, span |-> span, live |-> is_recording(span),
     exc |-> e, ends |-> ends, calls |-> <<>>]

\* The configuration an exit step knows: the frame's behavior and shape.
FrameCfg(f) == Config("", f.beh, f.shape, FALSE, FALSE)

NoCfg == Config("", "", "", FALSE, FALSE)

NoOp ==
    [op |-> "none", u |-> MainThread, cond |-> "", path |-> FALSE, carrier |-> FALSE,
     beh |-> "", shape |-> "", span |-> INVALID_SPAN, live |-> FALSE,
     exc |-> NoExc, ends |-> 0, calls |-> <<>>]

\* ------------------------------------------------ the decorated call
\* These three are the steps of wrapper and of async_wrapper, which differ
\* only in awaiting the wrapped coroutine.  They leave job, gen, events and
\* fcall to the specification that uses them.

\* Up to the start of the wrapped body: setup(), then `with use_span(span,
\* ...)` is entered.  An error of setup() reaches the caller before the body
\* runs; a behavior that is none of the three reaches the final `else` after
\* setup() has returned the span.
wrapper_call(u, cfg, pathval, carrier) ==
    /\ exc[u] = NoExc
    /\ cfg.cond = "new" => nspans < MaxSpans
    /\ cfg.shape = "async" => CanAwait(u)
    /\ LET r == setup(u, cfg, pathval, carrier)
       IN IF r.err # NoExc
          THEN /\ exc' = [exc EXCEPT ![u] = r.err]
               /\ last' = [Op("rejected", u, cfg, r.span, r.err, 0) EXCEPT !.calls = r.calls]
               /\ UNCHANGED <<nspans, parent, owner, cur, stack>>
          ELSE /\ nspans' = IF cfg.cond = "new" THEN r.span ELSE nspans
               /\ parent' = IF cfg.cond = "new"
                            THEN [parent EXCEPT ![r.span] = r.parent] ELSE parent
               /\ owner' = IF cfg.cond = "new" THEN [owner EXCEPT ![r.span] = u] ELSE owner
               /\ IF cfg.beh \notin SpanBehavior
                  THEN /\ exc' = [exc EXCEPT ![u] = InvalidSpanBehavior]
                       /\ last' = [Op("rejected", u, cfg, r.span, InvalidSpanBehavior, 0)
                                      EXCEPT !.calls = r.calls]
                       /\ UNCHANGED <<cur, stack>>
                  ELSE /\ cur' = attach(u, r.span)
                       /\ stack' = [stack EXCEPT
                                       ![u] = Append(@, Frame(cfg.beh, cfg.shape, r.span,
                                                              cur[u]))]
                       /\ last' = [Op("enter", u, cfg, r.span, NoExc, 0)
                                      EXCEPT !.calls = r.calls]
                       /\ UNCHANGED exc
    /\ UNCHANGED <<ended, selfSpan>>

\* The wrapped body returns: use_span exits (detach, then end() when
\* end_on_exit) and the wrapper returns the value.
wrapper_return(u) ==
    /\ stack[u] # <<>>
    /\ exc[u] = NoExc
    /\ LET f == Top(u)
           ends == use_span_ends(f.beh)
       IN /\ cur' = detach(u, f.token)
          /\ ended' = IF ends > 0 THEN end(f.span) ELSE ended
          /\ stack' = Pop(u)
          /\ last' = Op("return", u, FrameCfg(f), f.span, NoExc, ends)
    /\ UNCHANGED <<nspans, parent, owner, exc, selfSpan>>

\* An exception leaves the wrapped body: use_span detaches and ends the span
\* when end_on_exit; the wrapper's own `except:` ends the span for
\* ONLY_END_ON_EXCEPTION; the exception is re-raised to the caller.
wrapper_raise(u) ==
    /\ stack[u] # <<>>
    /\ exc[u] # NoExc
    /\ LET f == Top(u)
           ends == use_span_ends(f.beh) + except_ends(f.beh)
       IN /\ cur' = detach(u, f.token)
          /\ ended' = IF ends > 0 THEN end(f.span) ELSE ended
          /\ stack' = Pop(u)
          /\ exc' = [exc EXCEPT ![u] = reraise(exc[u])]
          /\ last' = Op("raise", u, FrameCfg(f), f.span, exc[u], ends)
    /\ UNCHANGED <<nspans, parent, owner, selfSpan>>

\* ------------------------------------------------------- the wrapped body

\* The body of the innermost active call raises e.
Raise(u, e) ==
    /\ stack[u] # <<>>
    /\ exc[u] = NoExc
    /\ exc' = [exc EXCEPT ![u] = e]
    /\ last' = NoOp
    /\ UNCHANGED <<nspans, parent, owner, ended, cur, stack, selfSpan>>

\* The code around the raising statement or call catches the exception
\* (`try: ... except: pass`), in a wrapped body or at the top level.
Catch(u) ==
    /\ exc[u] # NoExc
    /\ exc' = [exc EXCEPT ![u] = NoExc]
    /\ last' = NoOp
    /\ UNCHANGED <<nspans, parent, owner, ended, cur, stack, selfSpan>>

\* `self.span = get_current_span()` in the body of a decorated call.
StoreSpan(u) ==
    /\ stack[u] # <<>>
    /\ exc[u] = NoExc
    /\ selfSpan # get_current_span(u)
    /\ selfSpan' = get_current_span(u)
    /\ last' = NoOp
    /\ UNCHANGED <<nspans, parent, owner, ended, cur, stack, exc>>

\* ------------------------------------ one thread, nested decorated calls

NoJob == [kind |-> "none", carrier |-> NoCarrier, span |-> None, under |-> INVALID_SPAN,
          phase |-> "idle"]

\* No helper function has been called.
NoCall == [fn |-> "none"]

NoGen == [state |-> "none", beh |-> "", span |-> INVALID_SPAN, token |-> INVALID_SPAN]

Init ==
    /\ nspans = 0
    /\ parent = [s \in SpanIds |-> INVALID_SPAN]
    /\ owner = [s \in SpanIds |-> None]
    /\ ended = [s \in SpanIds |-> FALSE]
    /\ cur = [u \in Units |-> INVALID_SPAN]
    /\ stack = [u \in Units |-> <<>>]
    /\ exc = [u \in Units |-> NoExc]
    /\ selfSpan = None
    /\ job = [u \in Units |-> NoJob]
    /\ gen = [g \in Gens |-> NoGen]
    /\ events = [s \in SpanIds |-> 0]
    /\ fcall = NoCall
    /\ last = NoOp

\* The calls of one thread, nested up to `depth` deep, starting up to MaxNew spans.
Calls(depth) ==
    /\ \/ \E cfg \in spannedConfigs \cup respannedConfigs :
              /\ Len(stack[MainThread]) < depth
              /\ cfg.cond = "new" => nspans < MaxNew
              /\ wrapper_call(MainThread, cfg, selfSpan, NoCarrier)
       \/ wrapper_return(MainThread)
       \/ wrapper_raise(MainThread)
       \/ \E e \in UserExc : Raise(MainThread, e)
       \/ Catch(MainThread)
       \/ StoreSpan(MainThread)
    /\ UNCHANGED <<job, gen>>

Next == Calls(MaxDepth) /\ UNCHANGED <<events, fcall>>

Spec == Init /\ [][Next]_vars

\* The same thread with one more level of nesting.
NextDeep == Calls(MaxDepth + 1) /\ UNCHANGED <<events, fcall>>

SpecDeep == Init /\ [][NextDeep]_vars

C3_OnlyEndOnException ==
    /\ (last.op = "raise" /\ last.beh = ONLY_END_ON_EXCEPTION) =>
          /\ last.ends = 1
          /\ last.span \in SpanIds => ended[last.span]
          /\ exc[last.u] = last.exc /\ last.exc # NoExc
    /\ (last.op = "return" /\ last.beh = ONLY_END_ON_EXCEPTION) =>
          /\ last.ends = 0
          /\ last.live => is_recording(last.span)
          /\ exc[last.u] = NoExc

\* An ONLY_END_ON_EXCEPTION call on a recording span was left by an
\* exception: the span is ended and the exception is pending in the caller.
C3_Witness ==
    /\ last.op = "raise" /\ last.beh = ONLY_END_ON_EXCEPTION /\ last.live
    /\ ended[last.span] /\ exc[last.u] = "Exception"

C5_NeverEndsEnclosingSpan ==
    (last.op \in {"return", "raise"} /\ last.beh = END_ON_EXIT /\ last.ends > 0
        /\ last.span \in SpanIds) =>
        \A i \in 1..Len(stack[last.u]) : stack[last.u][i].span # last.span

\* -------------------------------------- threads: a pool of worker threads
\* The main thread runs a spanned function that hands work to the threads of
\* a ThreadPoolExecutor and leaves the pool's `with` block, which joins the
\* workers, before it returns.  A worker thread starts with an empty context.

JobKinds == {"spanned", "plain", "respanned", "carrier", "nested"}

Job(kind, carrier, span, under, phase) ==
    [kind |-> kind, carrier |-> carrier, span |-> span, under |-> under, phase |-> phase]

\* The decorator of the worker function of each kind of job.
WorkerConfig(kind) ==
    IF kind = "respanned" THEN Config("reuse", END_ON_EXIT, "plain", TRUE, FALSE)
    ELSE IF kind = "carrier" THEN Config("new", END_ON_EXIT, "plain", FALSE, TRUE)
    ELSE Config("new", END_ON_EXIT, "plain", FALSE, FALSE)

\* The main thread calls the spanned example function.
MainCall ==
    /\ stack[MainThread] = <<>>
    /\ nspans = 0
    /\ wrapper_call(MainThread, Config("new", END_ON_EXIT, "plain", FALSE, FALSE),
                    None, NoCarrier)
    /\ UNCHANGED <<job, gen>>

\* `outter_span = get_current_span()`
MainStore ==
    /\ StoreSpan(MainThread)
    /\ UNCHANGED <<job, gen>>

\* `pool.submit(worker, ...)`: the arguments are evaluated in the main thread.
Submit(w, kind) ==
    /\ stack[MainThread] # <<>>
    /\ job[w].phase = "idle"
    /\ kind \in {"plain", "respanned"} => selfSpan = get_current_span(MainThread)
    /\ job' = [job EXCEPT ![w] =
                  Job(kind,
                      IF kind \in {"carrier", "nested"}
                      THEN inject_span_carrier(MainThread) ELSE NoCarrier,
                      IF kind \in {"plain", "respanned"} THEN selfSpan ELSE None,
                      get_current_span(MainThread),
                      "queued")]
    /\ last' = NoOp
    /\ UNCHANGED <<nspans, parent, owner, ended, cur, stack, exc, selfSpan, gen>>

\* The pool's `with` block is left when every worker is done; then the
\* example function returns.
MainReturn ==
    /\ \A w \in Workers : job[w].phase \in {"idle", "done"}
    /\ wrapper_return(MainThread)
    /\ UNCHANGED <<job, gen>>

\* A worker thread starts its function.  An error of the decorator ends the
\* job: the pool stores the exception in the future.
WorkerCall(w) ==
    /\ job[w].phase = "queued"
    /\ IF job[w].kind = "plain"
       THEN /\ last' = NoOp
            /\ job' = [job EXCEPT ![w].phase = "body"]
            /\ UNCHANGED <<nspans, parent, owner, ended, cur, stack, exc, selfSpan>>
       ELSE /\ wrapper_call(w, WorkerConfig(job[w].kind), job[w].span, job[w].carrier)
            /\ job' = [job EXCEPT ![w].phase =
                          IF exc'[w] # NoExc THEN "done"
                          ELSE IF job[w].kind = "nested" THEN "outer" ELSE "body"]
    /\ UNCHANGED gen

\* A worker inside its own spanned function calls a function decorated with
\* spanned(carrier=...).
WorkerNestedCall(w) ==
    /\ job[w].phase = "outer"
    /\ wrapper_call(w, WorkerConfig("carrier"), None, job[w].carrier)
    /\ job' = [job EXCEPT ![w].phase = "body"]
    /\ UNCHANGED gen

\* `outter_span.add_event(...)` in a worker: recorded by a recording span, a
\* no-op on an ended one.
WorkerWrite(w) ==
    /\ job[w].phase = "body"
    /\ job[w].kind \in {"plain", "respanned"}
    /\ last' = Op("add_event", w, NoCfg, job[w].span, NoExc, 0)
    /\ job' = [job EXCEPT ![w].phase = "wrote"]
    /\ UNCHANGED <<nspans, parent, owner, ended, cur, stack, exc, selfSpan, gen>>

\* The worker's function returns.
WorkerReturn(w) ==
    /\ job[w].phase \in {"body", "wrote", "tail"}
    /\ IF job[w].kind = "plain"
       THEN /\ last' = NoOp
            /\ job' = [job EXCEPT ![w].phase = "done"]
            /\ UNCHANGED <<nspans, parent, owner, ended, cur, stack, exc, selfSpan>>
       ELSE /\ wrapper_return(w)
            /\ job' = [job EXCEPT ![w].phase =
                          IF Len(stack[w]) = 1 THEN "done" ELSE "tail"]
    /\ UNCHANGED gen

NextThreads ==
    /\ \/ MainCall
       \/ MainStore
       \/ \E w \in Workers, kind \in JobKinds : Submit(w, kind)
       \/ MainReturn
       \/ \E w \in Workers : WorkerCall(w)
       \/ \E w \in Workers : WorkerNestedCall(w)
       \/ \E w \in Workers : WorkerWrite(w)
       \/ \E w \in Workers : WorkerReturn(w)
    /\ UNCHANGED <<events, fcall>>

SpecThreads == Init /\ [][NextThreads]_vars

\* ------------------------------------------------------------------ C8
\* C8: the ambient span is per thread.  A worker thread that runs outside
\* any decorated call of its own has the non-recording INVALID_SPAN as its
\* ambient span, whatever the submitting thread's ambient span is, and the
\* submitting thread's ambient span stays that of its own call; a worker's
\* spanned() call without a carrier starts a root span (no parent) that is
\* not the submitter's span and not in the submitter's trace.
C8_AmbientPerThread ==
    /\ stack[MainThread] # <<>> => cur[MainThread] = Top(MainThread).span
    /\ \A w \in Workers :
          /\ (job[w].phase # "idle" /\ stack[w] = <<>>) =>
                /\ cur[w] = INVALID_SPAN
                /\ ~is_recording(get_current_span(w))
          /\ (job[w].kind \in {"spanned", "nested"} /\ stack[w] # <<>>) =>
                LET s == stack[w][1].span
                IN /\ s \in SpanIds /\ owner[s] = w
                   /\ parent[s] = INVALID_SPAN
                   /\ s # job[w].under
                   /\ TraceOf(s) # TraceOf(job[w].under)

\* While the submitter's span is recording and ambient in the main thread,
\* one worker has just entered its spanned function with a parentless span
\* and another worker runs an undecorated function with no ambient span.
C8_Witness ==
    /\ last.op = "enter" /\ last.u \in Workers /\ job[last.u].kind = "spanned"
    /\ parent[last.span] = INVALID_SPAN /\ cur[last.u] = last.span
    /\ is_recording(cur[MainThread]) /\ cur[MainThread] # last.span
    /\ \E v \in Workers :
          job[v].kind = "plain" /\ job[v].phase = "body" /\ cur[v] = INVALID_SPAN

\* ------------------------------------------------------------------ C9
\* C9: a carrier made by inject_span_carrier() under the recording ambient
\* span P of the submitter and given to a worker's spanned(carrier=...) call
\* makes the span that call starts a child of P, in P's trace, whether the
\* worker has no ambient span or is inside a span of its own, in every
\* interleaving of the workers.
C9_CarrierParent ==
    /\ (last.op = "enter" /\ last.carrier) =>
          /\ job[last.u].under \in SpanIds
          /\ parent[last.span] = job[last.u].under
          /\ TraceOf(last.span) = TraceOf(job[last.u].under)
    /\ \A w \in Workers :
          /\ (job[w].kind = "carrier" /\ stack[w] # <<>>) =>
                parent[stack[w][1].span] = job[w].under
          /\ (job[w].kind = "nested" /\ Len(stack[w]) = 2) =>
                /\ parent[stack[w][2].span] = job[w].under
                /\ parent[stack[w][2].span] # stack[w][1].span

\* A worker inside its own recording root span has just entered a
\* spanned(carrier=...) call; the new span's parent is the submitter's span,
\* not the worker's ambient span.
C9_Witness ==
    /\ last.op = "enter" /\ last.carrier /\ job[last.u].kind = "nested"
    /\ Len(stack[last.u]) = 2
    /\ is_recording(stack[last.u][1].span)
    /\ Top(last.u).token = stack[last.u][1].span
    /\ parent[last.span] = cur[MainThread]
    /\ parent[last.span] # stack[last.u][1].span

\* ------------------------------------------------------------------ C10
\* C10: a worker thread's respanned("span", END_ON_EXIT) call on the span
\* that is ambient in the submitting thread is not rejected by the
\* current-span guard: no exception is raised in the worker, and in the
\* worker's body the span is the worker's ambient span.
C10_WorkerReuseNotRejected ==
    \A w \in Workers :
        job[w].kind = "respanned" =>
            /\ exc[w] = NoExc
            /\ ~(last.op = "rejected" /\ last.u = w)
            /\ job[w].phase \in {"body", "wrote"} =>
                  /\ stack[w] # <<>>
                  /\ Top(w).span = job[w].span
                  /\ cur[w] = job[w].span
                  /\ job[w].span = job[w].under

\* A worker inside its respanned call has just written to the span after
\* another worker's respanned call on the same span returned and ended it.
C10_Witness ==
    /\ last.op = "add_event" /\ ~last.live /\ ended[last.span]
    /\ job[last.u].kind = "respanned" /\ stack[last.u] # <<>>
    /\ Top(last.u).span = last.span
    /\ stack[MainThread] # <<>> /\ Top(MainThread).span = last.span
    /\ \E v \in Workers \ {last.u} :
          job[v].kind = "respanned" /\ job[v].phase = "done" /\ job[v].span = last.span

\* ------------------------------------- asyncio: tasks of one event loop
\* Unit MainThread is the task asyncio.run() starts; the other units are
\* the tasks it makes with create_task()/gather().  One task runs at a time and
\* gives up the loop only at an await; a task's context is a copy of its
\* creator's context, taken when the task is created.

Running == {t \in Units : job[t].phase = "running"}

InitAsync ==
    /\ nspans = 0
    /\ parent = [s \in SpanIds |-> INVALID_SPAN]
    /\ owner = [s \in SpanIds |-> None]
    /\ ended = [s \in SpanIds |-> FALSE]
    /\ cur = [u \in Units |-> INVALID_SPAN]
    /\ stack = [u \in Units |-> <<>>]
    /\ exc = [u \in Units |-> NoExc]
    /\ selfSpan = None
    /\ job = [u \in Units |-> IF u = MainThread
                              THEN Job("task", NoCarrier, None, INVALID_SPAN, "running")
                              ELSE NoJob]
    /\ gen = [g \in Gens |-> NoGen]
    /\ events = [s \in SpanIds |-> 0]
    /\ fcall = NoCall
    /\ last = NoOp

\* spanned() on the coroutines and plain functions the tasks run
taskConfigs == {Config("new", END_ON_EXIT, sh, FALSE, FALSE) : sh \in Shapes}

\* The running task calls a spanned function: first its coroutine, and a
\* created task in its coroutine one more, a coroutine it awaits or a plain
\* function.
TaskCall(t, cfg) ==
    /\ job[t].phase = "running"
    /\ job[t].kind = IF stack[t] = <<>> THEN "task" ELSE "outer"
    /\ stack[t] # <<>> => t # MainThread
    /\ stack[t] = <<>> => cfg.shape = "async"
    /\ wrapper_call(t, cfg, None, NoCarrier)
    /\ job' = [job EXCEPT ![t].kind = IF stack[t] = <<>> THEN "outer" ELSE "inner"]
    /\ UNCHANGED gen

\* A call of the running task returns; the task is done when its coroutine has.
TaskReturn(t) ==
    /\ job[t].phase = "running"
    /\ wrapper_return(t)
    /\ job' = [job EXCEPT ![t].phase = IF Len(stack[t]) = 1 THEN "done" ELSE "running"]
    /\ UNCHANGED gen

TaskRaise(t, e) ==
    /\ job[t].phase = "running"
    /\ Raise(t, e)
    /\ UNCHANGED <<job, gen>>

\* An exception leaves a call of the running task; leaving the task's
\* coroutine it is stored in the task.
TaskUnwind(t) ==
    /\ job[t].phase = "running"
    /\ wrapper_raise(t)
    /\ job' = [job EXCEPT ![t].phase = IF Len(stack[t]) = 1 THEN "done" ELSE "running"]
    /\ UNCHANGED gen

\* create_task()/gather() in the main task's coroutine: the new task gets
\* a copy of the main task's context.
CreateTask(c) ==
    /\ job[MainThread].phase = "running"
    /\ stack[MainThread] # <<>>
    /\ exc[MainThread] = NoExc
    /\ job[c].phase = "idle"
    /\ cur' = [cur EXCEPT ![c] = cur[MainThread]]
    /\ job' = [job EXCEPT ![c] = Job("task", NoCarrier, None, cur[MainThread], "ready")]
    /\ last' = NoOp
    /\ UNCHANGED <<nspans, parent, owner, ended, stack, exc, selfSpan, gen>>

\* The running task awaits in a coroutine and gives up the loop.
Await(t) ==
    /\ job[t].phase = "running"
    /\ stack[t] # <<>>
    /\ exc[t] = NoExc
    /\ Top(t).shape = "async"
    /\ job' = [job EXCEPT ![t].phase = "ready"]
    /\ last' = NoOp
    /\ UNCHANGED <<nspans, parent, owner, ended, cur, stack, exc, selfSpan, gen>>

\* The loop resumes (or starts) a task, which then sees its ambient span.
Resume(t) ==
    /\ Running = {}
    /\ job[t].phase = "ready"
    /\ job' = [job EXCEPT ![t].phase = "running"]
    /\ last' = Op("resume", t, NoCfg, get_current_span(t), NoExc, 0)
    /\ UNCHANGED <<nspans, parent, owner, ended, cur, stack, exc, selfSpan, gen>>

NextAsync ==
    /\ \/ \E t \in Units, cfg \in taskConfigs : TaskCall(t, cfg)
       \/ \E t \in Units : TaskReturn(t)
       \/ \E t \in Units, e \in UserExc : TaskRaise(t, e)
       \/ \E t \in Units : TaskUnwind(t)
       \/ \E c \in Workers : CreateTask(c)
       \/ \E t \in Units : Await(t)
       \/ \E t \in Units : Resume(t)
    /\ UNCHANGED <<events, fcall>>

SpecAsync == InitAsync /\ [][NextAsync]_vars

\* ------------------------------------------------------------------ C7
\* C7: with several tasks inside spanned coroutines on one event loop, in
\* every interleaving at the awaits, a task that is inside a spanned call
\* (running or suspended, and at the moment it is resumed) has as ambient
\* span the span of its own innermost call, which it started itself, and
\* never a span another task started; a task that has not entered its
\* coroutine yet holds the snapshot taken at its creation.
C7_TaskSeesOwnSpan ==
    /\ \A t \in Units :
          /\ stack[t] # <<>> =>
                /\ cur[t] = Top(t).span
                /\ cur[t] \in SpanIds /\ owner[cur[t]] = t
          /\ (stack[t] = <<>> /\ job[t].phase \in {"ready", "running"}) =>
                cur[t] = job[t].under
    /\ (last.op = "resume" /\ stack[last.u] # <<>>) =>
          /\ last.span = Top(last.u).span
          /\ owner[last.span] = last.u

\* A task suspended in its spanned coroutine has just been resumed while
\* another task is suspended in a spanned coroutine of its own that it
\* entered later: the resumed task's ambient span is its own recording span.
C7_Witness ==
    /\ last.op = "resume" /\ stack[last.u] # <<>> /\ last.live
    /\ cur[last.u] = last.span /\ owner[last.span] = last.u
    /\ \E v \in Units \ {last.u} :
          /\ stack[v] # <<>> /\ job[v].phase = "ready"
          /\ is_recording(cur[v]) /\ cur[v] > last.span

\* ------------------------------ generators: a thread consuming generators
\* gen_wrapper is itself a generator function: calling it makes a generator
\* object and runs nothing; the first next() runs setup() and enters
\* `with use_span(...)`, every `yield val` inside that block suspends the
\* generator with the block still entered, and the block is left when the
\* wrapped generator is exhausted, raises, or the generator is closed.  A
\* generator runs in the context of the thread that calls next().

GenObj(state, beh, span, token) ==
    [state |-> state, beh |-> beh, span |-> span, token |-> token]

GenRunning == {g \in Gens : gen[g].state = "running"}

\* spanned(behavior=...) on a generator function
genConfig(beh) == Config("new", beh, "gen", FALSE, FALSE)

\* The consumer calls a spanned plain function or returns from it.
ConsumerCall ==
    /\ GenRunning = {}
    /\ Len(stack[MainThread]) < MaxDepth
    /\ nspans < MaxNew
    /\ wrapper_call(MainThread, Config("new", END_ON_EXIT, "plain", FALSE, FALSE),
                    None, NoCarrier)
    /\ UNCHANGED <<job, gen>>

ConsumerReturn ==
    /\ GenRunning = {}
    /\ wrapper_return(MainThread)
    /\ UNCHANGED <<job, gen>>

\* An exception a generator raised leaves a call of the consumer, or is caught.
ConsumerRaise ==
    /\ GenRunning = {}
    /\ wrapper_raise(MainThread)
    /\ UNCHANGED <<job, gen>>

ConsumerCatch ==
    /\ GenRunning = {}
    /\ Catch(MainThread)
    /\ UNCHANGED <<job, gen>>

\* A wrapper that is a plain function: setup() runs when it is called.
GenCreateEager(g, beh) ==
    /\ GenRunning = {}
    /\ gen[g].state = "none"
    /\ wrapper_call(MainThread, genConfig(beh), None, NoCarrier)
    /\ gen' = [gen EXCEPT ![g] = GenObj("created", beh, nspans + 1, cur[MainThread])]
    /\ UNCHANGED job

\* `gen = _gen(name)`: the generator object is made, no code of it runs.
GenCreate(g, beh) ==
    /\ GenRunning = {}
    /\ exc[MainThread] = NoExc
    /\ gen[g].state = "none"
    /\ gen' = [gen EXCEPT ![g] = GenObj("created", beh, INVALID_SPAN, INVALID_SPAN)]
    /\ last' = NoOp
    /\ UNCHANGED <<nspans, parent, owner, ended, cur, stack, exc, selfSpan, job>>

\* The first next(): setup(), `with use_span` is entered, the wrapped
\* generator starts to run.
GenStart(g) ==
    /\ GenRunning = {}
    /\ gen[g].state = "created"
    /\ wrapper_call(MainThread, genConfig(gen[g].beh), None, NoCarrier)
    /\ gen' = [gen EXCEPT ![g] =
                  GenObj("running", gen[g].beh, nspans + 1, cur[MainThread])]
    /\ UNCHANGED job

\* `yield val`: the generator is suspended inside the use_span block and
\* next() returns to the consumer.
GenYield(g) ==
    /\ gen[g].state = "running"
    /\ exc[MainThread] = NoExc
    /\ stack' = Pop(MainThread)
    /\ gen' = [gen EXCEPT ![g].state = "suspended"]
    /\ last' = Op("yield", MainThread, FrameCfg(Top(MainThread)), gen[g].span, NoExc, 0)
    /\ UNCHANGED <<nspans, parent, owner, ended, cur, exc, selfSpan, job>>

\* A later next(): the generator goes on after its yield.
GenResume(g) ==
    /\ GenRunning = {}
    /\ exc[MainThread] = NoExc
    /\ gen[g].state = "suspended"
    /\ stack' = [stack EXCEPT ![MainThread] =
                    Append(@, Frame(gen[g].beh, "gen", gen[g].span, gen[g].token))]
    /\ gen' = [gen EXCEPT ![g].state = "running"]
    /\ last' = Op("resume", MainThread, genConfig(gen[g].beh), gen[g].span, NoExc, 0)
    /\ UNCHANGED <<nspans, parent, owner, ended, cur, exc, selfSpan, job>>

\* The wrapped generator is exhausted: the use_span block is left and
\* next() raises StopIteration, which the consumer's loop takes as the end.
GenFinish(g) ==
    /\ gen[g].state = "running"
    /\ wrapper_return(MainThread)
    /\ gen' = [gen EXCEPT ![g].state = "done"]
    /\ UNCHANGED job

\* The wrapped generator raises e ...
GenRaise(g, e) ==
    /\ gen[g].state = "running"
    /\ Raise(MainThread, e)
    /\ UNCHANGED <<job, gen>>

\* ... which leaves the use_span block and next().
GenUnwind(g) ==
    /\ gen[g].state = "running"
    /\ wrapper_raise(MainThread)
    /\ gen' = [gen EXCEPT ![g].state = "done"]
    /\ UNCHANGED job

\* gen.close(), or the suspended generator is collected: GeneratorExit is
\* raised at the yield, leaves the use_span block and is swallowed by close().
GenClose(g) ==
    /\ GenRunning = {}
    /\ exc[MainThread] = NoExc
    /\ gen[g].state = "suspended"
    /\ LET ends == use_span_ends(gen[g].beh) + except_ends(gen[g].beh)
       IN /\ cur' = detach(MainThread, gen[g].token)
          /\ ended' = IF ends > 0 THEN end(gen[g].span) ELSE ended
          /\ last' = Op("close", MainThread, genConfig(gen[g].beh), gen[g].span, NoExc, ends)
    /\ gen' = [gen EXCEPT ![g].state = "done"]
    /\ UNCHANGED <<nspans, parent, owner, stack, exc, selfSpan, job>>

NextGen ==
    /\ \/ ConsumerCall
       \/ ConsumerReturn
       \/ ConsumerRaise
       \/ ConsumerCatch
       \/ \E g \in Gens, beh \in SpanBehavior : GenCreate(g, beh)
       \/ \E g \in Gens : GenStart(g)
       \/ \E g \in Gens : GenYield(g)
       \/ \E g \in Gens : GenResume(g)
       \/ \E g \in Gens : GenFinish(g)
       \/ \E g \in Gens, e \in UserExc : GenRaise(g, e)
       \/ \E g \in Gens : GenUnwind(g)
       \/ \E g \in Gens : GenClose(g)
    /\ UNCHANGED <<events, fcall>>

SpecGen == Init /\ [][NextGen]_vars

\* ------------------------------------------------------------------ C6
\* C6: the span of a decorated generator is the consumer's ambient span
\* exactly while the generator's body executes: while the generator runs (in
\* a next() call) the ambient span is the generator's span, and while it is
\* suspended at a yield (between two next() calls) the ambient span is not
\* the generator's span.
C6_AmbientOnlyWhileRunning ==
    \A g \in Gens :
        /\ gen[g].state = "running" => cur[MainThread] = gen[g].span
        /\ gen[g].state = "suspended" => cur[MainThread] # gen[g].span

\* ----------------------------------------- events: evented() functions
\* One thread makes spanned calls, stores a span in self.span and calls
\* functions decorated with evented() or evented(span="self.span").

\* Span.add_event(): recorded by a recording span, a no-op on an ended span
\* and on INVALID_SPAN.
add_event(s) == IF is_recording(s) THEN [events EXCEPT ![s] = @ + 1] ELSE events

eventedConfig(path) == Config("evented", "", "plain", path, FALSE)

\* A setup that takes the current span without looking at its state.
evented_setupNoCheck(u, path, pathval) ==
    IF path THEN inspector_get_span(pathval)
    ELSE [err |-> NoExc, span |-> get_current_span(u)]

\* A setup that always takes the current span.
evented_setupIgnorePath(u, path, pathval) ==
    IF ~is_recording(get_current_span(u))
    THEN [err |-> RuntimeError, span |-> INVALID_SPAN]
    ELSE [err |-> NoExc, span |-> get_current_span(u)]

\* evented.setup: the span the event goes to, or the error raised.
evented_setup(u, path, pathval) ==
    IF path THEN inspector_get_span(pathval)
    ELSE IF ~is_recording(get_current_span(u))
         THEN [err |-> RuntimeError, span |-> INVALID_SPAN]
         ELSE [err |-> NoExc, span |-> get_current_span(u)]

\* evented's wrapper: setup(), then one add_event on the span, then the
\* wrapped function, which runs in the caller's context.
evented_wrapper(u, path, pathval) ==
    /\ exc[u] = NoExc
    /\ LET r == evented_setup(u, path, pathval)
       IN IF r.err # NoExc
          THEN /\ exc' = [exc EXCEPT ![u] = r.err]
               /\ events' = events
               /\ last' = Op("evented", u, eventedConfig(path), r.span, r.err, 0)
          ELSE /\ is_recording(r.span) => events[r.span] < MaxEvents
               /\ exc' = exc
               /\ events' = add_event(r.span)
               /\ last' = [Op("evented", u, eventedConfig(path), r.span, NoExc, 0)
                              EXCEPT !.calls = <<"add_event", "func">>]
    /\ UNCHANGED <<nspans, parent, owner, ended, cur, stack, selfSpan>>

\* A spanned call; the conductor adds the automatic event to the new span.
EvCall(beh) ==
    /\ Len(stack[MainThread]) < MaxDepth
    /\ nspans < MaxNew
    /\ wrapper_call(MainThread, Config("new", beh, "plain", FALSE, FALSE), None, NoCarrier)
    /\ events' = [events EXCEPT ![nspans + 1] = 1]
    /\ UNCHANGED <<job, gen, fcall>>

EvReturn ==
    /\ wrapper_return(MainThread)
    /\ UNCHANGED <<job, gen, events, fcall>>

EvStore ==
    /\ StoreSpan(MainThread)
    /\ UNCHANGED <<job, gen, events, fcall>>

EvCatch ==
    /\ Catch(MainThread)
    /\ UNCHANGED <<job, gen, events, fcall>>

\* A call of a function decorated with evented() or evented(span="self.span").
EvEvented(path) ==
    /\ evented_wrapper(MainThread, path, selfSpan)
    /\ UNCHANGED <<job, gen, fcall>>

NextEvents ==
    \/ \E beh \in {END_ON_EXIT, DONT_END} : EvCall(beh)
    \/ EvReturn
    \/ EvStore
    \/ EvCatch
    \/ \E path \in BOOLEAN : EvEvented(path)

SpecEvents == Init /\ [][NextEvents]_vars

C11_ReusedSpanAmbientAndRecording ==
    (last.op = "enter" /\ last.cond = "reuse" /\ last.path /\ last.span \in SpanIds) =>
        /\ get_current_span(last.u) = last.span
        /\ last.span = selfSpan
        /\ is_recording(get_current_span(last.u))

\* --------------------------------------- utils.py: attribute conversion
\* Python values: t is the type, v tells values of one type apart, items are
\* the members of a list or of a bytes object, id is the identity of a
\* mutable object (0 for immutable values).
Val(t, v, items, id) == [t |-> t, v |-> v, items |-> items, id |-> id]

legal_types == {"str", "bool", "int", "float"}

\* A key that the mapping does not have.
Absent == Val("absent", 0, <<>>, 0)

\* Members of the sequences tried: an int, a str, None and a nested list.
Members == {Val("int", 1, <<>>, 0), Val("str", 1, <<>>, 0),
            Val("NoneType", 0, <<>>, 0), Val("list", 0, <<>>, 0)}

Seqs(S, n) == UNION {[1..k -> S] : k \in 0..n}

\* The values tried for an entry whose list object, if it is one, is `id`:
\* legal scalars, None, a dict, an object, lists and byte strings.
Values(id) ==
    {Val(t, 1, <<>>, 0) : t \in legal_types \cup {"NoneType", "dict", "object"}}
    \cup {Val("list", 0, items, id) : items \in Seqs(Members, MaxLen)}
    \cup {Val("bytes", 0, items, 0) : items \in Seqs({Val("int", 1, <<>>, 0)}, MaxLen)}

Keys == {"a", "b"}
ObjectId(k) == IF k = "a" THEN 1 ELSE 2

\* isinstance(x, collections.abc.Sequence): str, list/tuple, bytes.
isinstance_Sequence(x) == x.t \in {"str", "list", "bytes"}

\* set(type(m) for m in x)
member_types(x) == {x.items[i].t : i \in 1..Len(x.items)}

\* copy.deepcopy: a new object for a list, the same object for immutables.
deepcopy(x) == IF x.t = "list" THEN [x EXCEPT !.id = @ + Cardinality(Keys)] ELSE x

convert_to_attributes(raw) ==
    LET skips == {k \in Keys :
                    /\ raw[k] # Absent
                    /\ raw[k].t \notin legal_types
                    /\ ~(/\ isinstance_Sequence(raw[k])
                         /\ Cardinality(member_types(raw[k])) = 1
                         /\ member_types(raw[k]) \subseteq legal_types)}
    IN [k \in Keys |-> IF raw[k] = Absent \/ k \in skips THEN Absent
                       ELSE deepcopy(raw[k])]

\* The state before a helper of utils.py is called with one of `inputs`.
InitInputs(inputs) ==
    /\ nspans = 0
    /\ parent = [s \in SpanIds |-> INVALID_SPAN]
    /\ owner = [s \in SpanIds |-> None]
    /\ ended = [s \in SpanIds |-> FALSE]
    /\ cur = [u \in Units |-> INVALID_SPAN]
    /\ stack = [u \in Units |-> <<>>]
    /\ exc = [u \in Units |-> NoExc]
    /\ selfSpan = None
    /\ job = [u \in Units |-> NoJob]
    /\ gen = [g \in Gens |-> NoGen]
    /\ events = [s \in SpanIds |-> 0]
    /\ fcall \in inputs
    /\ last = NoOp

tracing == <<nspans, parent, owner, ended, cur, stack, exc, selfSpan, job, gen, events, last>>

\* convert_to_attributes(raw) is called and returns.
Convert ==
    /\ fcall.fn = "input"
    /\ LET res == convert_to_attributes(fcall.raw)
       IN fcall' = [fn |-> "convert_to_attributes", raw |-> fcall.raw,
                    result |-> res, returned |-> res]
    /\ UNCHANGED tracing

\* After the call, the caller appends to or clears a list it passed in; every
\* reference to that list object sees the change.
MutateInput ==
    /\ fcall.fn = "convert_to_attributes"
    /\ \E k \in Keys, m \in {"append", "clear"} :
        /\ fcall.raw[k].t = "list"
        /\ m = "clear" => fcall.raw[k].items # <<>>
        /\ LET upd(x) == IF x.t = "list" /\ x.id = fcall.raw[k].id
                         THEN [x EXCEPT !.items =
                                  IF m = "clear" THEN <<>>
                                  ELSE Append(@, Val("int", 1, <<>>, 0))]
                         ELSE x
           IN fcall' = [fcall EXCEPT !.fn = "mutated",
                                     !.raw = [j \in Keys |-> upd(fcall.raw[j])],
                                     !.result = [j \in Keys |-> upd(fcall.result[j])]]
    /\ UNCHANGED tracing

NextAttrs == Convert \/ MutateInput

\* Every mapping over Keys of the values tried, each list its own object.
InitAttrs ==
    InitInputs({[fn |-> "input", raw |-> r] :
                   r \in {f \in [Keys -> UNION {Values(ObjectId(k)) : k \in Keys} \cup {Absent}] :
                            \A k \in Keys : f[k].id \in {0, ObjectId(k)}}})

SpecAttrs == InitAttrs /\ [][NextAttrs]_vars

\* The legal attribute domain: a str, bool, int or float, or a list whose
\* members all share one of these types.
LegalAttribute(x) ==
    \/ x.t \in legal_types
    \/ /\ x.t = "list"
       /\ \E t \in legal_types : \A i \in 1..Len(x.items) : x.items[i].t = t

\* ------------------------------------------------------------------ C14
\* C14: every value of a mapping returned by convert_to_attributes is a
\* str, bool, int or float, or a sequence whose members all share one of
\* these types: never None, a dict, an object, a byte string, or a
\* heterogeneous or nested sequence.
C14_OnlyLegalValues ==
    fcall.fn = "convert_to_attributes" =>
        \A k \in Keys : fcall.result[k] # Absent => LegalAttribute(fcall.result[k])

\* ------------------------------------------------------------------ C15
\* C15: convert_to_attributes keeps, under the same key and with an equal
\* value, every entry whose value is a legal scalar or a sequence of any
\* length (0 and 1 included) whose members share one legal type, and omits
\* every other entry; the kept values are copies, so a later mutation of an
\* input value leaves the returned mapping as it was returned.
C15_RetainsLegalAsCopies ==
    /\ fcall.fn = "convert_to_attributes" =>
          \A k \in Keys :
              IF fcall.raw[k] # Absent /\ LegalAttribute(fcall.raw[k])
              THEN [fcall.result[k] EXCEPT !.id = 0] = [fcall.raw[k] EXCEPT !.id = 0]
              ELSE fcall.result[k] = Absent
    /\ fcall.fn = "mutated" => fcall.result = fcall.returned

\* ------------------------------------------------ utils.py: rget paths
\* A variable path is a sequence of tokens: names (one token each) and the
\* characters . [ ] ' and ".  Dicts and objects carry their members in m.
NoneValue == Val("NoneType", 1, <<>>, 0)

Obj(t, m) == [t |-> t, v |-> 0, items |-> <<>>, id |-> 0, m |-> m]

\* The argument values tried: an int, None, and dicts and objects, nested up
\* to two deep, that have or lack the member "k".
Objects ==
    LET Leaves == {Val("int", 1, <<>>, 0), NoneValue}
        Containers(children) ==
            {Obj(t, m) : t \in {"dict", "object"},
                         m \in UNION {[S -> children] : S \in SUBSET {"k"}}}
    IN Leaves \cup Containers(Leaves \cup Containers(Leaves))

Returned(err, value) == [err |-> err, value |-> value]

\* The attribute or key a path segment names: a single name token is that
\* name, an empty segment the empty string, anything else a string that is
\* no member's name.
SegmentName(seg) == IF seg = <<>> THEN "" ELSE IF Len(seg) = 1 THEN seg[1] ELSE "?"

\* for i, char in enumerate(var_name): a "[" that is the last character or
\* is not followed by a quote.
variable_dict_key(var_name) ==
    \E i \in 1..Len(var_name) :
        var_name[i] = "[" /\ (i = Len(var_name) \/ var_name[i + 1] \notin {"'", "\""})

\* A conversion that leaves the quotes in place.
bracket_to_dotKeepQuotes(var_name) ==
    SelectSeq([i \in 1..Len(var_name) |-> IF var_name[i] = "[" THEN "." ELSE var_name[i]],
              LAMBDA c : c # "]")

\* var_name.replace("[", "."), then every ', " and ] removed.
bracket_to_dot(var_name) ==
    SelectSeq([i \in 1..Len(var_name) |-> IF var_name[i] = "[" THEN "." ELSE var_name[i]],
              LAMBDA c : c \notin {"'", "\"", "]"})

\* string.split(".", maxsplit=1)[0]
dot_left(string) ==
    IF \E i \in 1..Len(string) : string[i] = "."
    THEN SubSeq(string, 1, (CHOOSE i \in 1..Len(string) :
                               string[i] = "." /\ \A j \in 1..(i - 1) : string[j] # ".") - 1)
    ELSE string

\* string.split(".", maxsplit=1)[1], "" if there is no dot
dot_right(string) ==
    IF \E i \in 1..Len(string) : string[i] = "."
    THEN SubSeq(string, (CHOOSE i \in 1..Len(string) :
                            string[i] = "." /\ \A j \in 1..(i - 1) : string[j] # ".") + 1,
                Len(string))
    ELSE <<>>

\* obj.get(attr, None) for a dict, getattr(obj, attr) otherwise.
_get_attr_or_value(obj, attr) ==
    IF obj.t = "dict"
    THEN Returned(NoExc, IF attr \in DOMAIN obj.m THEN obj.m[attr] ELSE NoneValue)
    ELSE IF obj.t = "object" /\ attr \in DOMAIN obj.m
         THEN Returned(NoExc, obj.m[attr])
         ELSE Returned(AttributeError, NoneValue)

RECURSIVE _rget(_, _)
_rget(obj, attr) ==
    IF attr = <<>> THEN Returned(NoExc, obj)
    ELSE IF \E i \in 1..Len(attr) : attr[i] = "."
         THEN LET left_attr == _get_attr_or_value(obj, SegmentName(dot_left(attr)))
              IN IF left_attr.err # NoExc THEN left_attr
                 ELSE _rget(left_attr.value, dot_right(attr))
         ELSE _get_attr_or_value(obj, SegmentName(attr))

\* FunctionInspection.rget without a type: the value at var_name, or
\* AttributeError.
rget(param_args, var_name) ==
    IF (\E i \in 1..Len(var_name) : var_name[i] = "[") /\ variable_dict_key(var_name)
    THEN Returned(AttributeError, NoneValue)
    ELSE LET name == IF \E i \in 1..Len(var_name) : var_name[i] = "["
                     THEN bracket_to_dot(var_name) ELSE var_name
         IN IF SegmentName(dot_left(name)) \notin DOMAIN param_args
            THEN Returned(AttributeError, NoneValue)
            ELSE _rget(param_args[SegmentName(dot_left(name))], dot_right(name))

\* The ways a segment after the first is written: .k  ['k']  ["k"]  [k]
Forms == {"dot", "squote", "dquote", "variable"}

RECURSIVE Render(_, _)
Render(segs, forms) ==
    IF Len(segs) = 1 THEN <<segs[1]>>
    ELSE LET n == Len(segs)
             k == segs[n]
         IN Render(SubSeq(segs, 1, n - 1), SubSeq(forms, 1, n - 2)) \o
            (CASE forms[n - 1] = "dot" -> <<".", k>>
               [] forms[n - 1] = "squote" -> <<"[", "'", k, "'", "]">>
               [] forms[n - 1] = "dquote" -> <<"[", "\"", k, "\"", "]">>
               [] forms[n - 1] = "variable" -> <<"[", k, "]">>)

\* A function called with its one parameter "a" bound to each of Objects,
\* and each path of up to 1 + MaxLen segments: "a" or the unbound name "k",
\* then members "k" or "a".
InitRget ==
    InitInputs({[fn |-> "input", param_args |-> [n \in {"a"} |-> o], segs |-> <<first>> \o rest] :
                   o \in Objects, first \in {"a", "k"}, rest \in Seqs({"k", "a"}, MaxLen)})

\* rget(var_name) is called with the path written in the forms chosen; the
\* dot form of a path may be followed by a call with another form of it.
Rget ==
    /\ \/ fcall.fn = "input"
       \/ fcall.fn = "rget" /\ \A i \in DOMAIN fcall.forms : fcall.forms[i] = "dot"
    /\ \E forms \in [1..(Len(fcall.segs) - 1) -> Forms] :
          fcall' = [fn |-> "rget", param_args |-> fcall.param_args, segs |-> fcall.segs,
                    forms |-> forms, var_name |-> Render(fcall.segs, forms),
                    result |-> rget(fcall.param_args, Render(fcall.segs, forms))]
    /\ UNCHANGED tracing

SpecRget == InitRget /\ [][Rget]_vars

\* ------------------------------------------------------------------ C18
\* C18: rget gives the same result, value or error, for a path whose
\* members are written in bracket-quote form, a['k'] or a["k"], as for the
\* same path in dot form, a.k; a path with a key that is not a quoted
\* literal, a[k], is rejected with an error.
C18_BracketQuoteIsDot ==
    [][fcall'.fn = "rget" =>
          IF \E i \in DOMAIN fcall'.forms : fcall'.forms[i] = "variable"
          THEN fcall'.result.err = AttributeError
          ELSE fcall.fn = "rget" => fcall'.result = fcall.result
      ]_vars

\* rget has just returned the int at a['k']["k"], two dicts deep.
C18_Witness ==
    /\ fcall.fn = "rget"
    /\ fcall.forms = <<"squote", "dquote">>
    /\ fcall.param_args["a"].t = "dict"
    /\ fcall.result = Returned(NoExc, Val("int", 1, <<>>, 0))

\* A path resolves when its first segment is a bound parameter and every
\* later segment is a key of the dict or an attribute of the object reached.
RECURSIVE Resolves(_, _)
Resolves(obj, names) ==
    \/ names = <<>>
    \/ /\ obj.t \in {"dict", "object"}
       /\ Head(names) \in DOMAIN obj.m
       /\ Resolves(obj.m[Head(names)], Tail(names))

\* ------------------------------------------------------------------ C19
\* C19: rget raises AttributeError whenever a segment of the path does not
\* resolve (an unbound first segment, an attribute the object lacks, a key
\* the dict lacks) and never returns a value for such a path.
C19_UnresolvedPathRaises ==
    (/\ fcall.fn = "rget"
     /\ ~(/\ Head(fcall.segs) \in DOMAIN fcall.param_args
          /\ Resolves(fcall.param_args[Head(fcall.segs)], Tail(fcall.segs))))
        => fcall.result.err = AttributeError

\* ------------------------------------------- utils.py: wrangle_attributes
\* `these` is the set of configured paths, here parameter names; attributes
\* maps each of Keys to an explicit value or Absent.

\* A wrangler that adds the bound parameters only when no whitelist is given.
wrangle_attributesElseIf(attributes, param_args, all_args, these) ==
    LET whitelisted == [k \in Keys |->
                           IF k \in these THEN rget(param_args, <<k>>).value ELSE Absent]
        with_args == [k \in Keys |->
                         IF these = {} /\ all_args /\ k \in DOMAIN param_args
                         THEN param_args[k] ELSE whitelisted[k]]
        raw == [k \in Keys |->
                   IF attributes[k] # Absent THEN attributes[k] ELSE with_args[k]]
    IN IF \E k \in these : rget(param_args, <<k>>).err # NoExc
       THEN Returned(AttributeError, [k \in Keys |-> Absent])
       ELSE Returned(NoExc, convert_to_attributes(raw))

\* if these: ...; if all_args: ...; if attributes: ...; convert_to_attributes
wrangle_attributes(attributes, param_args, all_args, these) ==
    LET whitelisted == [k \in Keys |->
                           IF k \in these THEN rget(param_args, <<k>>).value ELSE Absent]
        with_args == [k \in Keys |->
                         IF all_args /\ k \in DOMAIN param_args
                         THEN param_args[k] ELSE whitelisted[k]]
        raw == [k \in Keys |->
                   IF attributes[k] # Absent THEN attributes[k] ELSE with_args[k]]
    IN IF \E k \in these : rget(param_args, <<k>>).err # NoExc
       THEN Returned(AttributeError, [k \in Keys |-> Absent])
       ELSE Returned(NoExc, convert_to_attributes(raw))

\* A function with parameter a, or a and b, bound to an int, None or a list
\* of one int; explicit attributes (an int, None, an empty list) for none,
\* one or both of Keys; every whitelist over Keys; all_args off and on.
InitWrangle ==
    InitInputs({[fn |-> "input", attributes |-> at, param_args |-> pa,
                 all_args |-> al, these |-> th] :
                   at \in [Keys -> {Absent, Val("int", 2, <<>>, 0), NoneValue,
                                    Val("list", 0, <<>>, 0)}],
                   pa \in UNION {[D -> {Val("int", 1, <<>>, 0), NoneValue,
                                        Val("list", 0, <<Val("int", 1, <<>>, 0)>>, 0)}] :
                                    D \in {{"a"}, Keys}},
                   al \in BOOLEAN, th \in SUBSET Keys})

\* wrangle_attributes(attributes, func_inspect, all_args, these) is called.
Wrangle ==
    /\ fcall.fn = "input"
    /\ fcall' = [fcall EXCEPT !.fn = "wrangle_attributes"] @@
                [result |-> wrangle_attributes(fcall.attributes, fcall.param_args,
                                               fcall.all_args, fcall.these)]
    /\ UNCHANGED tracing

SpecWrangle == InitWrangle /\ [][Wrangle]_vars

C17_ExplicitAttributeWins ==
    (fcall.fn = "wrangle_attributes" /\ fcall.result.err = NoExc) =>
        \A k \in Keys :
            (fcall.attributes[k] # Absent /\ LegalAttribute(fcall.attributes[k])) =>
                [fcall.result.value[k] EXCEPT !.id = 0] = fcall.attributes[k]

\* ------------------------------- paths that the arguments do not have
\* One thread calls plain functions decorated with spanned() or respanned()
\* whose attribute paths, carrier path or span path may be missing from the
\* arguments of the call.

resolveConfigs ==
    {These(Config("new", b, "plain", FALSE, ca), t) :
        b \in {END_ON_EXIT, DONT_END}, ca \in BOOLEAN, t \in {"bound", "unbound"}}
    \cup {These(Config("reuse", b, "plain", pa, FALSE), t) :
        b \in {END_ON_EXIT, DONT_END}, pa \in BOOLEAN, t \in {"bound", "unbound"}}

\* The values the span path and the carrier path can have in a call.
PathValues == {selfSpan, Unresolved}
CarrierValues == {inject_span_carrier(MainThread), <<Unresolved>>}

\* The call has a configured path that its arguments do not have.
FailsToResolve(cfg, pathval, carrier) ==
    \/ cfg.these = "unbound"
    \/ cfg.cond = "new" /\ cfg.carrier /\ carrier = <<Unresolved>>
    \/ cfg.cond = "reuse" /\ cfg.path /\ pathval = Unresolved

ResolveCall ==
    /\ Len(stack[MainThread]) < MaxDepth
    /\ \E cfg \in resolveConfigs :
          \E pathval \in IF cfg.path THEN PathValues ELSE {selfSpan},
             carrier \in IF cfg.carrier THEN CarrierValues ELSE {NoCarrier} :
                /\ cfg.cond = "new" => nspans < MaxNew
                /\ wrapper_call(MainThread, cfg, pathval, carrier)
    /\ UNCHANGED <<job, gen, events, fcall>>

ResolveReturn ==
    /\ wrapper_return(MainThread)
    /\ UNCHANGED <<job, gen, events, fcall>>

ResolveStore ==
    /\ StoreSpan(MainThread)
    /\ UNCHANGED <<job, gen, events, fcall>>

ResolveCatch ==
    /\ Catch(MainThread)
    /\ UNCHANGED <<job, gen, events, fcall>>

NextResolve == ResolveCall \/ ResolveReturn \/ ResolveStore \/ ResolveCatch

SpecResolve == Init /\ [][NextResolve]_vars

LinkPaths == {"link", "optspan", "missing", "span"}

\* A wrapper without the self-link check.
self_linkNever(inject, links) == FALSE

\* inject and links and "span" in links
self_link(inject, links) == inject /\ \E i \in 1..Len(links) : links[i] = "span"

\* _wrangle_links: rget(var_name, Link) for each path in order; a TypeError
\* is logged and the path skipped, an AttributeError is not caught.  The
\* Links found are named by the positions of their paths.
_wrangle_links(links) ==
    IF \E i \in 1..Len(links) : links[i] = "missing"
    THEN [err |-> AttributeError, out |-> <<>>]
    ELSE [err |-> NoExc,
          out |-> SelectSeq([i \in 1..Len(links) |-> i], LAMBDA i : links[i] = "link")]

\* A wrapper that makes the span current in both modes.
tools_attachAlways(u, inject, span) == attach(u, span)

\* tracer.start_span for inject, tracer.start_as_current_span otherwise
tools_attach(u, inject, span) == IF inject THEN cur ELSE attach(u, span)

\* tools.spanned's wrapper up to the start of the wrapped function.
tools_spanned(u, inject, links) ==
    LET cfg == Config("new", IF inject THEN "inject" ELSE END_ON_EXIT, "plain", FALSE, FALSE)
        found == _wrangle_links(links)
        s == nspans + 1
    IN /\ exc[u] = NoExc
       /\ IF self_link(inject, links)
          THEN /\ exc' = [exc EXCEPT ![u] = ValueError]
               /\ last' = Op("rejected", u, cfg, INVALID_SPAN, ValueError, 0)
               /\ fcall' = [fn |-> "spanned", links |-> links, out |-> <<>>]
               /\ UNCHANGED <<nspans, parent, owner, cur, stack>>
          ELSE /\ fcall' = [fn |-> "_wrangle_links", links |-> links, out |-> found.out]
               /\ IF found.err # NoExc
                  THEN /\ exc' = [exc EXCEPT ![u] = found.err]
                       /\ last' = Op("rejected", u, cfg, INVALID_SPAN, found.err, 0)
                       /\ UNCHANGED <<nspans, parent, owner, cur, stack>>
                  ELSE /\ nspans' = s
                       /\ parent' = [parent EXCEPT ![s] = get_current_span(u)]
                       /\ owner' = [owner EXCEPT ![s] = u]
                       /\ cur' = tools_attach(u, inject, s)
                       /\ stack' = [stack EXCEPT
                                       ![u] = Append(@, Frame(cfg.beh, "plain", s, cur[u]))]
                       /\ last' = [Op("enter", u, cfg, s, NoExc, 0)
                                      EXCEPT !.calls = <<"start_span">>, !.live = TRUE]
                       /\ UNCHANGED exc
       /\ UNCHANGED <<ended, selfSpan>>

\* The wrapped function returns or an exception leaves it: with inject the
\* wrapper does nothing more, otherwise start_as_current_span's block is
\* left (detach, end).
tools_exit(u) ==
    /\ stack[u] # <<>>
    /\ LET f == Top(u)
           injected == f.beh = "inject"
       IN /\ cur' = IF injected THEN cur ELSE detach(u, f.token)
          /\ ended' = IF injected THEN ended ELSE end(f.span)
          /\ stack' = Pop(u)
          /\ last' = Op(IF exc[u] = NoExc THEN "return" ELSE "raise", u, FrameCfg(f),
                        f.span, exc[u], IF injected THEN 0 ELSE 1)
    /\ UNCHANGED <<nspans, parent, owner, exc, selfSpan>>

NextTools ==
    /\ \/ /\ Len(stack[MainThread]) < MaxDepth
          /\ nspans < MaxNew
          /\ \E inject \in BOOLEAN, links \in Seqs(LinkPaths, MaxLen) :
                tools_spanned(MainThread, inject, links)
       \/ tools_exit(MainThread) /\ UNCHANGED fcall
       \/ Raise(MainThread, "Exception") /\ UNCHANGED fcall
       \/ Catch(MainThread) /\ UNCHANGED fcall
    /\ UNCHANGED <<job, gen, events>>

SpecTools == Init /\ [][NextTools]_vars

\* ------------------------------------------------------------------ C21
\* C21: link resolution never fails the decorated call: whatever the link
\* paths of a call are (and it is not refused as a self-link), the span is
\* started and the function entered, and the links of the span are the
\* Links at the paths that hold one, in the order of the paths.
C21_LinksBestEffort ==
    (last.op \in {"enter", "rejected"} /\ last.exc # ValueError /\ fcall.fn = "_wrangle_links") =>
        /\ last.op = "enter" /\ last.exc = NoExc
        /\ fcall.out = SelectSeq([i \in 1..Len(fcall.links) |-> i],
                                 LAMBDA i : fcall.links[i] = "link")

\* ------------------------------------------------------------------ C22
\* C22: a call of a spanned(inject=True, links=[...]) function whose links
\* name `span` raises ValueError; the step starts no span, makes no tracer
\* call and does not enter the function.
C22_SelfLinkRejected ==
    [][(/\ last'.op \in {"enter", "rejected"} /\ last'.beh = "inject"
        /\ \E i \in 1..Len(fcall'.links) : fcall'.links[i] = "span") =>
            /\ exc'[MainThread] = ValueError
            /\ last'.op = "rejected" /\ last'.calls = <<>>
            /\ UNCHANGED <<nspans, parent, owner, ended, cur, stack>>
      ]_vars

\* A self-linking call has just been refused inside a running call, with
\* that call's span still the recording ambient span.
C22_Witness ==
    /\ last.op = "rejected" /\ last.exc = ValueError /\ last.beh = "inject"
    /\ fcall.fn = "spanned" /\ fcall.links = <<"link", "span">>
    /\ exc[MainThread] = ValueError
    /\ stack[MainThread] # <<>>
    /\ is_recording(cur[MainThread])

\* ------------------------------------------------------------------ C23
\* C23: with inject the new span is not made the ambient span (the function
\* runs under the caller's ambient span), it is the span handed to the
\* function, and the wrapper makes no end() call on it and leaves the ambient
\* span alone when the function returns or raises.
C23_InjectedSpanNotAmbientNotEnded ==
    [][/\ (last'.op = "enter" /\ last'.beh = "inject") =>
              /\ cur' = cur
              /\ last'.span = nspans' /\ nspans' = nspans + 1
              /\ Top(MainThread)'.span = last'.span
              /\ ~ended'[last'.span]
       /\ (last'.op \in {"return", "raise"} /\ last'.beh = "inject") =>
              /\ last'.ends = 0 /\ ended' = ended
              /\ cur' = cur
      ]_vars

\* An exception has just left a function that got an injected span, called
\* inside a spanned() call: the injected span is still recording and is not
\* the ambient span, which is the outer call's.
C23_Witness ==
    /\ last.op = "raise" /\ last.beh = "inject"
    /\ is_recording(last.span)
    /\ stack[MainThread] # <<>>
    /\ is_recording(cur[MainThread]) /\ cur[MainThread] # last.span
    /\ Top(MainThread).span = cur[MainThread]

\* ------------------------------------------------------------------ C24
\* C24: a respanned call on the ambient span (no span_var_name) is never
\* let into the wrapped function while no ambient span is recording: every
\* such call that enters the function, whatever its behavior, found a
\* recording span.
C24_AmbientReuseNeedsRecordingSpan ==
    (last.op = "enter" /\ last.cond = "reuse" /\ ~last.path) => last.live

\* ----------------------------------- client and server: spanned(kind=...)
\* The main thread is the client: inside its spanned(kind=CLIENT) call it
\* sends requests whose headers are inject_span_carrier().  Unit Server
\* handles a request in a decorated method; a handler may be declared with
\* any kind and with or without carrier="self.request.headers".  The kind is
\* an argument of tracer.start_span only.
Server == 1

SpanKinds == {"INTERNAL", "SERVER"}

\* A request arrives while the client's call is running and the handler
\* (or a decorated function the handler calls) is entered.
do_GET(kind, beh, carrier) ==
    LET headers == inject_span_carrier(MainThread)
    IN /\ stack[MainThread] # <<>>
       /\ Len(stack[Server]) < MaxDepth
       /\ nspans < MaxNew + 1
       /\ wrapper_call(Server, Config("new", beh, "plain", FALSE, carrier), selfSpan,
                       IF carrier THEN headers ELSE NoCarrier)
       /\ fcall' = [fn |-> "start_span", kind |-> kind, headers |-> headers]

NextServer ==
    /\ \/ /\ stack[MainThread] = <<>>
          /\ nspans < MaxNew
          /\ wrapper_call(MainThread, Config("new", END_ON_EXIT, "plain", FALSE, FALSE),
                          selfSpan, NoCarrier)
          /\ fcall' = [fn |-> "start_span", kind |-> "CLIENT", headers |-> NoCarrier]
       \/ \E kind \in SpanKinds, beh \in {END_ON_EXIT, DONT_END}, carrier \in BOOLEAN :
             do_GET(kind, beh, carrier)
       \/ \E u \in {MainThread, Server} :
             /\ u = MainThread => stack[Server] = <<>>
             /\ wrapper_return(u)
             /\ UNCHANGED fcall
    /\ UNCHANGED <<job, gen, events>>

SpecServer == Init /\ [][NextServer]_vars

\* ------------------------------------------------------------------ C25
\* C25: a new span declared with kind SERVER is parented to the context
\* carried by the request's headers, whether or not the carrier is
\* configured; a new span of another kind without a carrier is parented to
\* the ambient span of its caller, or has no parent when there is none.
C25_ServerKindUsesRequestHeaders ==
    [][(last'.op = "enter" /\ last'.cond = "new") =>
          /\ fcall'.kind = "SERVER" =>
                parent'[last'.span] = extract(fcall'.headers)
          /\ (fcall'.kind # "SERVER" /\ ~last'.carrier) =>
                parent'[last'.span] = get_current_span(last'.u)
      ]_vars

\* --------------------------------------- a behavior outside SpanBehavior
\* Decorators may be given any value as behavior; nothing looks at it before
\* the call.  "OTHER" stands for a value that is no member of the enum.
AnyBehavior == SpanBehavior \cup {"OTHER"}

NextBehavior ==
    /\ \/ \E cond \in {"new", "reuse"}, beh \in AnyBehavior, path \in BOOLEAN :
             /\ Len(stack[MainThread]) < MaxDepth
             /\ cond = "new" => (nspans < MaxNew /\ ~path)
             /\ wrapper_call(MainThread, Config(cond, beh, "plain", path, FALSE),
                             selfSpan, NoCarrier)
       \/ wrapper_return(MainThread)
       \/ wrapper_raise(MainThread)
       \/ \E e \in UserExc : Raise(MainThread, e)
       \/ Catch(MainThread)
       \/ StoreSpan(MainThread)
    /\ UNCHANGED <<job, gen, events, fcall>>

SpecBehavior == Init /\ [][NextBehavior]_vars

\* ------------------------------------------------------------------ C26
\* C26: a call configured with a behavior outside the three raises
\* InvalidSpanBehavior without entering the wrapped function, and the
\* rejected call has started no span: the tracer has as many spans after it
\* as before, none of them opened by the call.
C26_InvalidBehaviorStartsNoSpan ==
    [][(last'.op \in {"enter", "rejected"} /\ last'.beh \notin SpanBehavior) =>
          /\ last'.op = "rejected"
          /\ exc'[MainThread] \in {InvalidSpanBehavior, TypeError}
          /\ stack' = stack
          /\ nspans' = nspans
          /\ \A i \in 1..Len(last'.calls) : last'.calls[i] # "start_span"
      ]_vars

\* ------------------------------------------------------------------ C27
\* C27: the decorated calls of a thread leave the ambient span as they found
\* it, last in first out: with no call active the ambient span is the one the
\* thread started with (none); inside the calls it is the span of the
\* innermost active call, and the ambient span each active call found when
\* it was entered is the span of the call enclosing it.  So when a call has
\* returned or raised, for any behavior, the ambient span is again the one
\* of the call enclosing it.
C27_AmbientRestoredLastInFirstOut ==
    LET calls == stack[MainThread]
    IN /\ cur[MainThread] = IF calls = <<>> THEN INVALID_SPAN ELSE Top(MainThread).span
       /\ \A i \in 1..Len(calls) :
             calls[i].token = IF i = 1 THEN INVALID_SPAN ELSE calls[i - 1].span
       /\ (last.op \in {"return", "raise"} /\ calls # <<>>) =>
             cur[MainThread] = Top(MainThread).span

\* An exception has just left an inner call with a span of its own, made
\* inside a call whose recording span is the ambient span again while the
\* exception is pending there.
C27_Witness ==
    /\ last.op = "raise" /\ last.shape = "plain" /\ last.span \in SpanIds
    /\ stack[MainThread] # <<>>
    /\ cur[MainThread] = Top(MainThread).span
    /\ cur[MainThread] # last.span
    /\ is_recording(cur[MainThread])
    /\ exc[MainThread] # NoExc

\* ------------------------------------------------------------------ C28
\* C28: the decorators call end() on a span at most once: an exit step that
\* calls end() on a span calls it once, and the span was still recording
\* until then, so that no call ends a span an earlier call has ended.
C28_EndCalledAtMostOnce ==
    (last.op \in {"return", "raise"} /\ last.ends > 0 /\ last.span \in SpanIds) =>
        /\ last.ends = 1
        /\ last.live

\* ------------------------------------ generators consumed at top level
\* The consumer makes and drives the generators outside any decorated call
\* of its own.
NextIter ==
    /\ \/ ConsumerCatch
       \/ \E g \in Gens, beh \in SpanBehavior : GenCreate(g, beh)
       \/ \E g \in Gens : GenStart(g)
       \/ \E g \in Gens : GenYield(g)
       \/ \E g \in Gens : GenResume(g)
       \/ \E g \in Gens : GenFinish(g)
       \/ \E g \in Gens, e \in UserExc : GenRaise(g, e)
       \/ \E g \in Gens : GenUnwind(g)
       \/ \E g \in Gens : GenClose(g)
    /\ UNCHANGED <<events, fcall>>

SpecIter == Init /\ [][NextIter]_vars

\* ------------------------------------------------------------------ C29
\* C29: calling a decorated generator function acquires nothing: the step
\* that makes the generator object starts no span, makes no tracer call,
\* changes no ambient span and raises nothing, and a generator that was never
\* resumed has no span; the first next() starts the span and records the
\* automatic event.  With END_ON_EXIT the step in which the generator is
\* exhausted, raises or is closed calls end() once and the span is ended
\* then; a yield makes no end() call, and the span of a running or suspended
\* generator is not ended.
C29_GeneratorAcquiresAtFirstResume ==
    [][/\ \A g \in Gens :
             /\ (gen[g].state = "none" /\ gen'[g].state # "none") =>
                   /\ gen'[g].state = "created"
                   /\ last'.op = "none" /\ last'.calls = <<>>
                   /\ UNCHANGED <<nspans, parent, owner, ended, cur, stack, exc>>
             /\ gen'[g].state = "created" => gen'[g].span = INVALID_SPAN
             /\ (gen[g].state = "created" /\ gen'[g].state # "created") =>
                   /\ last'.op = "enter" /\ last'.calls = <<"start_span", "add_event">>
                   /\ nspans' = nspans + 1 /\ gen'[g].span = nspans'
                   /\ gen'[g].state = "running"
             /\ (gen'[g].state \in {"running", "suspended"} /\ gen'[g].beh = END_ON_EXIT) =>
                   ~ended'[gen'[g].span]
       /\ last'.op = "yield" => (last'.ends = 0 /\ ended' = ended)
       /\ (last'.op \in {"return", "raise", "close"} /\ last'.shape = "gen"
              /\ last'.beh = END_ON_EXIT) =>
             /\ last'.ends = 1
             /\ ~ended[last'.span] /\ ended'[last'.span]
      ]_vars

\* A generator made by an END_ON_EXIT function has just been closed at its
\* yield, which ended its span, the only span started so far, while another
\* generator that was made is still waiting for its first next().
C29_Witness ==
    /\ last.op = "close" /\ last.beh = END_ON_EXIT /\ last.ends = 1
    /\ ended[last.span] /\ nspans = 1
    /\ \E g \in Gens : gen[g].state = "created" /\ gen[g].span = INVALID_SPAN
    /\ \E g \in Gens : gen[g].state = "done" /\ gen[g].span = last.span

\* ------------------------------------------------------------------ C30
\* C30: a respanned call rejected with InvalidSpanBehavior (END_ON_EXIT on
\* the caller's ambient span) leaves the span as it was: when the span is
\* recording, so that a write would take effect, the call has made no
\* set_attribute and no add_event call on it.
C30_RejectedCallWritesNothing ==
    (last.op = "rejected" /\ last.cond = "reuse" /\ last.beh = END_ON_EXIT
        /\ last.exc = InvalidSpanBehavior /\ last.live) =>
        last.calls = <<>>

====
